---- MODULE Spec2Model ----
(***************************************************************************)
(* Posts viewer (src/src/App.jsx): the PostsProvider store (posts,         *)
(* loading, currentPage), the initial load (fetch joined with a 5 s        *)
(* timer), and the handlers of PostsGrid / Pagination.                     *)
(*                                                                         *)
(* Spec      : the program as it is rendered: only the controls on screen  *)
(*             can be used (cards of the visible slice, rendered page      *)
(*             buttons, Prev/Next unless disabled).                        *)
(* SpecFair  : Spec with the fetch settling and the timer firing           *)
(*             eventually (weak fairness), on shorter responses.           *)
(* SpecStore : the operations of the context value called by an arbitrary  *)
(*             consumer: deletePost(id) for any id, setCurrentPage(n) for  *)
(*             any integer n, goPrev/goNext at any cursor.                 *)
(***************************************************************************)
EXTENDS Integers, Sequences, FiniteSets, TLC

VARIABLES
    posts,        \* useState([])    : sequence of post records
    loading,      \* useState(true)
    currentPage,  \* useState(1)
    mounted,      \* let mounted = true (closure flag of the effect)
    fetchState,   \* fetchPromise: "pending", "fulfilled", "networkError", "parseError"
    data,         \* value fetchPromise was fulfilled with
    timerFired,   \* the 5000 ms delay promise is resolved
    pc,           \* fetchPosts: "awaiting" (at the await) or "done"
    lastOp,       \* history: the handler that ran last
    prevPage      \* history: currentPage before the handler that ran last

vars == <<posts, loading, currentPage, mounted, fetchState, data, timerFired,
          pc, lastOp, prevPage>>

\* ---------------------------------------------------------------- bounds
\* Longest array the posts endpoint answers with in the model (the request
\* asks for at most 18).
MaxPosts == 14
\* SpecStore and SpecFair: longest array the endpoint answers with.
MaxStorePosts == 7
\* SpecStore: setCurrentPage(n) is called with n in -BelowRange .. AboveRange.
BelowRange == 2
AboveRange == 4

\* ------------------------------------------------------------- constants
\* fetch('.../posts?_limit=18')
Limit == 18

perPage == 6

Min(a, b) == IF a < b THEN a ELSE b
Max(a, b) == IF a > b THEN a ELSE b

\* Math.ceil(n / d) for n >= 0, d > 0
CeilFloor(n, d) == n \div d

Ceil(n, d) == (n + d - 1) \div d

\* Array.prototype.slice(from, to) on a 1-indexed sequence: negative
\* arguments count from the end, both are clipped to the length.
JsSlice(s, from, to) ==
    LET len == Len(s)
        k   == IF from < 0 THEN Max(len + from, 0) ELSE Min(from, len)
        fin == IF to < 0 THEN Max(len + to, 0) ELSE Min(to, len)
    IN  IF fin > k THEN SubSeq(s, k + 1, fin) ELSE <<>>

\* Math.max(1, Math.ceil(posts.length / 6))
totalPages(ps) == Max(1, Ceil(Len(ps), perPage))

\* PostsGrid: page = Math.min(currentPage, totalPages)
pageUnclamped(ps, cp) == cp

page(ps, cp) == Min(cp, totalPages(ps))

\* PostsGrid: start = (page - 1) * perPage
startNextPage(ps, cp) == page(ps, cp) * perPage

start(ps, cp) == (page(ps, cp) - 1) * perPage

\* PostsGrid: slice = posts.slice(start, start + perPage)
sliceOneShort(ps, cp) == JsSlice(ps, start(ps, cp), start(ps, cp) + perPage - 1)

slice(ps, cp) == JsSlice(ps, start(ps, cp), start(ps, cp) + perPage)

\* Pagination: for (let i = 1; i <= totalPages; i++) pages.push(i)
RECURSIVE pagesFrom(_, _)
pagesFrom(i, tp) == IF i <= tp THEN <<i>> \o pagesFrom(i + 1, tp) ELSE <<>>
pages(ps) == pagesFrom(1, totalPages(ps))

Ids(ps) == {ps[k].id : k \in 1..Len(ps)}

\* ------------------------------------------------------------ fetchPosts
\* What the endpoint may answer: an array of n posts with the ids 1..n, or
\* a JSON value that is no array.
Response(n) == [isArray |-> TRUE, items |-> [k \in 1..n |-> [id |-> k]]]
NotAnArray == [isArray |-> FALSE, items |-> <<>>]
NoData == [isArray |-> FALSE, items |-> <<>>]

Rejections == {"networkError", "parseError"}

\* data.map(post => ({...post, img: `.../seed/${post.id}/400/250`}));
\* img is modelled by the seed of the URL.
withImages(items) ==
    [k \in 1..Len(items) |-> [id |-> items[k].id, img |-> items[k].id]]

\* Promise.all([fetchPromise, delay]) is settled: rejected as soon as one
\* input is rejected, fulfilled once both are fulfilled.
allSettled(fs, tf) == fs \in Rejections \/ (fs = "fulfilled" /\ tf)

\* fetchPosts from the await to its end: try / catch / finally, as the
\* store values [posts, loading, pc] it leaves.
afterAwaitLoadingStuck(fs, d, m, ps, ld) ==
    IF fs \in Rejections \/ ~m \/ ~d.isArray
    THEN [posts |-> ps, loading |-> ld, pc |-> "done"]
    ELSE [posts |-> withImages(d.items), loading |-> FALSE, pc |-> "done"]

afterAwaitIgnoresMounted(fs, d, m, ps, ld) ==
    IF fs \in Rejections \/ ~d.isArray
    THEN [posts |-> <<>>, loading |-> FALSE, pc |-> "done"]
    ELSE [posts |-> withImages(d.items), loading |-> FALSE, pc |-> "done"]

afterAwait(fs, d, m, ps, ld) ==
    IF fs \in Rejections
    THEN \* await throws -> catch, finally
         [posts |-> IF m THEN <<>> ELSE ps,
          loading |-> IF m THEN FALSE ELSE ld, pc |-> "done"]
    ELSE IF ~m
    THEN \* if (!mounted) return; finally: mounted is false
         [posts |-> ps, loading |-> ld, pc |-> "done"]
    ELSE IF ~d.isArray
    THEN \* data.map is not a function: TypeError -> catch, finally
         [posts |-> <<>>, loading |-> FALSE, pc |-> "done"]
    ELSE \* setPosts(Array.isArray(withImages) ? withImages : []), finally
         [posts |-> withImages(d.items), loading |-> FALSE, pc |-> "done"]

\* The turn in which a promise settles: fetchPosts resumes in the same turn
\* when that settles Promise.all, otherwise the store is untouched.
resume(fs, d, tf) ==
    IF pc = "awaiting" /\ allSettled(fs, tf)
    THEN LET r == afterAwait(fs, d, mounted, posts, loading)
         IN  posts' = r.posts /\ loading' = r.loading /\ pc' = r.pc
    ELSE UNCHANGED <<posts, loading, pc>>

\* fetch(...).then(r => r.json()) is fulfilled with a body
FetchFulfilled(maxLen) ==
    /\ fetchState = "pending"
    /\ \E d \in {Response(n) : n \in 0..maxLen} \cup {NotAnArray} :
          /\ fetchState' = "fulfilled"
          /\ data' = d
          /\ resume("fulfilled", d, timerFired)
    /\ lastOp' = "fetchFulfilled"
    /\ prevPage' = currentPage
    /\ UNCHANGED <<currentPage, mounted, timerFired>>

\* fetch rejects (network error) or r.json() rejects (unparsable body)
FetchRejected ==
    /\ fetchState = "pending"
    /\ \E why \in Rejections :
          /\ fetchState' = why
          /\ resume(why, data, timerFired)
    /\ lastOp' = "fetchRejected"
    /\ prevPage' = currentPage
    /\ UNCHANGED <<currentPage, mounted, data, timerFired>>

\* setTimeout(resolve, 5000) fires
TimerFires ==
    /\ ~timerFired
    /\ timerFired' = TRUE
    /\ resume(fetchState, data, TRUE)
    /\ lastOp' = "timer"
    /\ prevPage' = currentPage
    /\ UNCHANGED <<currentPage, mounted, fetchState, data>>

\* cleanup of the effect: return () => { mounted = false; }
Unmount ==
    /\ mounted
    /\ mounted' = FALSE
    /\ lastOp' = "unmount"
    /\ prevPage' = currentPage
    /\ UNCHANGED <<posts, loading, currentPage, fetchState, data, timerFired, pc>>

\* ----------------------------------------------------------------- store
\* deletePost: next = prev.filter(p => p.id !== id)
deleteNextDropsHead(prev, id) ==
    IF \E k \in 1..Len(prev) : prev[k].id = id THEN Tail(prev) ELSE prev

deleteNextKeepsMatch(prev, id) == SelectSeq(prev, LAMBDA p : p.id = id)

deleteNext(prev, id) == SelectSeq(prev, LAMBDA p : p.id # id)

\* deletePost: setCurrentPage(cp => Math.min(cp, totalPages)), totalPages
\* computed from next
deleteClampNone(cp, next) == cp

deleteClampStep(cp, next) == Max(1, cp - 1)

deleteClamp(cp, next) == Min(cp, totalPages(next))

\* deletePost(id) on the store values (ps, cp): the values it commits.
deletePostResult(ps, cp, id) ==
    LET next == deleteNext(ps, id)
    IN  [posts |-> next, currentPage |-> deleteClamp(cp, next)]

\* deletePost(id): setCurrentPage is called inside the setPosts updater, so
\* both updates land in the same commit.
deletePost(id) ==
    LET r == deletePostResult(posts, currentPage, id)
    IN  posts' = r.posts /\ currentPage' = r.currentPage

\* setCurrentPage(v) with a value: the state setter stores v as it is.
setCurrentPage(v) == currentPage' = v

\* goPrev = () => setCurrentPage(p => Math.max(1, p - 1))
goPrevTo(p) == Max(1, p - 1)

\* goNext = () => setCurrentPage(p => Math.min(totalPages, p + 1)), with
\* totalPages of the render the handler was created in
goNextToUnbounded(p, tp) == p + 1

goNextTo(p, tp) == Min(tp, p + 1)

goPrev == setCurrentPage(goPrevTo(currentPage))
goNext == setCurrentPage(goNextTo(currentPage, totalPages(posts)))

\* MainShell renders PostsGrid (cards and Pagination) only when !loading.
renderedWhileLoading == mounted

rendered == mounted /\ ~loading

\* ------------------------------------------------- the rendered controls
\* the red cross of a card of the visible slice
ClickDelete ==
    /\ rendered
    /\ \E k \in 1..Len(slice(posts, currentPage)) :
          deletePost(slice(posts, currentPage)[k].id)
    /\ lastOp' = "deletePost"
    /\ prevPage' = currentPage
    /\ UNCHANGED <<loading, mounted, fetchState, data, timerFired, pc>>

\* one of the rendered page buttons
ClickPage ==
    /\ rendered
    /\ \E k \in 1..Len(pages(posts)) : setCurrentPage(pages(posts)[k])
    /\ lastOp' = "setCurrentPage"
    /\ prevPage' = currentPage
    /\ UNCHANGED <<posts, loading, mounted, fetchState, data, timerFired, pc>>

\* Prev, disabled={currentPage === 1}
ClickPrev ==
    /\ rendered
    /\ currentPage # 1
    /\ goPrev
    /\ lastOp' = "goPrev"
    /\ prevPage' = currentPage
    /\ UNCHANGED <<posts, loading, mounted, fetchState, data, timerFired, pc>>

\* Next, disabled={currentPage === totalPages}
ClickNext ==
    /\ rendered
    /\ currentPage # totalPages(posts)
    /\ goNext
    /\ lastOp' = "goNext"
    /\ prevPage' = currentPage
    /\ UNCHANGED <<posts, loading, mounted, fetchState, data, timerFired, pc>>

\* ------------------------------------ the context value, any consumer
CallDelete ==
    /\ rendered
    /\ \E id \in 1..(MaxStorePosts + 1) : deletePost(id)
    /\ lastOp' = "deletePost"
    /\ prevPage' = currentPage
    /\ UNCHANGED <<loading, mounted, fetchState, data, timerFired, pc>>

CallSetCurrentPage ==
    /\ rendered
    /\ \E n \in (0 - BelowRange)..AboveRange : setCurrentPage(n)
    /\ lastOp' = "setCurrentPage"
    /\ prevPage' = currentPage
    /\ UNCHANGED <<posts, loading, mounted, fetchState, data, timerFired, pc>>

CallPrev ==
    /\ rendered
    /\ goPrev
    /\ lastOp' = "goPrev"
    /\ prevPage' = currentPage
    /\ UNCHANGED <<posts, loading, mounted, fetchState, data, timerFired, pc>>

CallNext ==
    /\ rendered
    /\ goNext
    /\ lastOp' = "goNext"
    /\ prevPage' = currentPage
    /\ UNCHANGED <<posts, loading, mounted, fetchState, data, timerFired, pc>>

\* --------------------------------------------------------- specifications
InitZeroPage ==
    /\ posts = <<>>
    /\ loading = TRUE
    /\ currentPage = 0
    /\ mounted = TRUE
    /\ fetchState = "pending"
    /\ data = NoData
    /\ timerFired = FALSE
    /\ pc = "awaiting"
    /\ lastOp = "mount"
    /\ prevPage = 0

Init ==
    /\ posts = <<>>
    /\ loading = TRUE
    /\ currentPage = 1
    /\ mounted = TRUE
    /\ fetchState = "pending"
    /\ data = NoData
    /\ timerFired = FALSE
    /\ pc = "awaiting"
    /\ lastOp = "mount"
    /\ prevPage = 1

Fetched == FetchFulfilled(MaxPosts)
StoreFetched == FetchFulfilled(MaxStorePosts)

Next ==
    \/ Fetched
    \/ FetchRejected
    \/ TimerFires
    \/ Unmount
    \/ ClickDelete
    \/ ClickPage
    \/ ClickPrev
    \/ ClickNext

Spec == Init /\ [][Next]_vars

NextStore ==
    \/ StoreFetched
    \/ FetchRejected
    \/ TimerFires
    \/ Unmount
    \/ CallDelete
    \/ CallSetCurrentPage
    \/ CallPrev
    \/ CallNext

SpecStore == Init /\ [][NextStore]_vars

\* The rendered program with the scheduling the load relies on: the timer
\* fires, and the fetch settles (fulfilled or rejected), once each.
NextFair ==
    \/ StoreFetched
    \/ FetchRejected
    \/ TimerFires
    \/ Unmount
    \/ ClickDelete
    \/ ClickPage
    \/ ClickPrev
    \/ ClickNext

SpecFair ==
    /\ Init
    /\ [][NextFair]_vars
    /\ WF_vars(StoreFetched \/ FetchRejected)
    /\ WF_vars(TimerFires)

\* ================================================================ claims
\* max(1, ceil(n / 6)) as the specification words it: the least number of
\* pages of 6 that hold n items, and at least one page.
CeilOf(n, d) == CHOOSE k \in 0..n : k * d >= n /\ (k - 1) * d < n
ExpectedTotalPages(n) == IF CeilOf(n, perPage) < 1 THEN 1 ELSE CeilOf(n, perPage)

\* s without its k-th item
RemoveAt(s, k) == SubSeq(s, 1, k - 1) \o SubSeq(s, k + 1, Len(s))

\* the load failed: fetch or r.json() rejected, or the body is no array
loadFailed == fetchState \in Rejections \/ (fetchState = "fulfilled" /\ ~data.isArray)

C2_GoToPageClamped ==
    lastOp = "setCurrentPage" =>
        /\ 1 <= page(posts, currentPage)
        /\ page(posts, currentPage) <= ExpectedTotalPages(Len(posts))

\* ---- C3
\* C3: a deletePost(id) step leaves posts without the item whose id is id
\* and sets currentPage to min(currentPage, max(1, ceil(len(posts')/6))):
\* the cursor never increases and changes only when it exceeded the new
\* number of pages.
C3_RemoveClampsCursor ==
    [][lastOp' = "deletePost" =>
          /\ \/ posts' = posts
             \/ \E k \in 1..Len(posts) : posts' = RemoveAt(posts, k)
          /\ currentPage' =
                (IF currentPage < ExpectedTotalPages(Len(posts'))
                 THEN currentPage ELSE ExpectedTotalPages(Len(posts')))
          /\ currentPage' <= currentPage
          /\ (currentPage' # currentPage
                <=> currentPage > ExpectedTotalPages(Len(posts')))]_vars

\* a removal lowered the cursor
C3_Witness ==
    /\ lastOp = "deletePost"
    /\ currentPage < prevPage
    /\ currentPage = ExpectedTotalPages(Len(posts))

C5_ClaimedLen(n, k) ==
    IF k < ExpectedTotalPages(n) THEN perPage
    ELSE IF n % perPage = 0 THEN perPage ELSE n % perPage

\* C5 as stated: every page but the last has 6 items, the last has
\* len mod 6, or 6 when len is evenly divisible by 6, the empty collection
\* included.
C5_SliceLenAsStated ==
    rendered =>
        \A k \in 1..totalPages(posts) :
            Len(slice(posts, k)) = C5_ClaimedLen(Len(posts), k)

\* C5 amended: every page but the last has 6 items; the last has len mod 6,
\* or 6 when len is a positive multiple of 6; the single page of an empty
\* collection has no items.
C5_SliceLen ==
    /\ \A k \in 1..totalPages(posts) :
          Len(slice(posts, k)) =
              (IF Len(posts) = 0 THEN 0 ELSE C5_ClaimedLen(Len(posts), k))
    /\ Len(slice(posts, currentPage)) =
          (IF Len(posts) = 0 THEN 0
           ELSE C5_ClaimedLen(Len(posts), currentPage))

\* the grid is shown with the collection emptied by a removal
C5_Witness ==
    /\ rendered
    /\ lastOp = "deletePost"
    /\ posts = <<>>
    /\ slice(posts, currentPage) = <<>>

\* ---- C6
\* C6: when a card of the displayed page is deleted and that page is not
\* the last one, currentPage is unchanged and the new slice has 6 items:
\* the old slice without the deleted item, in order, followed by the item
\* that was first on the next page.
C6_ShiftUp ==
    [][(lastOp' = "deletePost"
          /\ page(posts, currentPage) < ExpectedTotalPages(Len(posts)))
       => /\ currentPage' = currentPage
          /\ Len(slice(posts', currentPage')) = perPage
          /\ \E k \in 1..perPage :
                LET first == (currentPage - 1) * perPage
                IN  /\ posts' = RemoveAt(posts, first + k)
                    /\ slice(posts', currentPage') =
                          RemoveAt(slice(posts, currentPage), k)
                              \o <<posts[first + perPage + 1]>>]_vars

\* a card was deleted on page 1 of 3 and the page is full again
C6_Witness ==
    /\ lastOp = "deletePost"
    /\ prevPage = 1
    /\ currentPage = 1
    /\ Len(posts) = 2 * perPage + 1
    /\ Len(slice(posts, currentPage)) = perPage

\* ---- C7
\* C7: with the cursor on the last page (currentPage = totalPages > 1),
\* deleting a card of that page keeps the cursor while the page still has
\* items; the deletion that empties it sets the cursor to totalPages - 1
\* and the slice is the full 6 items of the previous page.
C7_EmptyLastPage ==
    [][(lastOp' = "deletePost"
          /\ currentPage > 1
          /\ currentPage = ExpectedTotalPages(Len(posts)))
       => LET first == (currentPage - 1) * perPage
              onPage == Len(posts) - first
          IN  /\ \E k \in 1..onPage : posts' = RemoveAt(posts, first + k)
              /\ IF onPage > 1
                 THEN /\ currentPage' = currentPage
                      /\ Len(slice(posts', currentPage')) = onPage - 1
                 ELSE /\ currentPage' = currentPage - 1
                      /\ ExpectedTotalPages(Len(posts')) = currentPage - 1
                      /\ slice(posts', currentPage') =
                            SubSeq(posts, first - perPage + 1, first)]_vars

\* the last card of page 3 was deleted: 12 posts, 2 pages, cursor 2
C7_Witness ==
    /\ lastOp = "deletePost"
    /\ prevPage = 3
    /\ Len(posts) = 12
    /\ currentPage = 2
    /\ Len(slice(posts, currentPage)) = perPage

\* ---- C8
\* C8: goNext sets currentPage to currentPage + 1 when currentPage <
\* totalPages and leaves it when currentPage = totalPages; goPrev sets it
\* to currentPage - 1 when currentPage > 1 and leaves it when currentPage
\* = 1; neither changes posts, loading or the load.
C8_PrevNext ==
    [][/\ lastOp' = "goNext" =>
             /\ currentPage < ExpectedTotalPages(Len(posts))
                   => currentPage' = currentPage + 1
             /\ currentPage = ExpectedTotalPages(Len(posts))
                   => currentPage' = currentPage
             /\ UNCHANGED <<posts, loading, mounted, pc>>
       /\ lastOp' = "goPrev" =>
             /\ currentPage > 1 => currentPage' = currentPage - 1
             /\ currentPage = 1 => currentPage' = currentPage
             /\ UNCHANGED <<posts, loading, mounted, pc>>]_vars

\* goNext was called on the last of two pages and the cursor stayed
C8_Witness ==
    /\ lastOp = "goNext"
    /\ Len(posts) > perPage
    /\ prevPage = ExpectedTotalPages(Len(posts))
    /\ currentPage = prevPage

\* ---- C9
\* C9: loading is false only after the 5 second timer has fired, whatever
\* the order in which the fetch settles and the timer fires.
C9_LoadingUntilTimer == ~loading => timerFired

\* ---- C10
\* C10: when the load fails (fetch rejected, body unparsable, or body not
\* an array) and the provider is mounted, the load ends with posts empty,
\* loading false, currentPage 1, one page and an empty slice.
C10_FailureGivesEmpty ==
    (loadFailed /\ mounted /\ pc = "done") =>
        /\ posts = <<>>
        /\ ~loading
        /\ currentPage = 1
        /\ ExpectedTotalPages(Len(posts)) = 1
        /\ totalPages(posts) = 1
        /\ slice(posts, currentPage) = <<>>

\* the body was no array and the empty grid is shown
C10_Witness ==
    /\ fetchState = "fulfilled"
    /\ ~data.isArray
    /\ pc = "done"
    /\ rendered
    /\ posts = <<>>

\* ---- C11
\* C11: once the provider is unmounted, no later step (the fetch settling,
\* the timer firing, in any order, with success or failure) writes the
\* store: posts, loading and currentPage keep their values.
C11_NoWriteAfterUnmount ==
    [][~mounted => UNCHANGED <<posts, loading, currentPage>>]_vars

\* unmounted during the load; a non-empty array arrived and the timer
\* fired afterwards, fetchPosts has finished and the store is untouched
C11_Witness ==
    /\ ~mounted
    /\ pc = "done"
    /\ fetchState = "fulfilled"
    /\ data.isArray
    /\ Len(data.items) > 0
    /\ timerFired
    /\ loading
    /\ posts = <<>>

\* ---- C12
\* the collection the load supplies: the fetched posts with their images,
\* or the empty sequence when the load failed
loaded ==
    IF fetchState = "fulfilled" /\ data.isArray
    THEN [k \in 1..Len(data.items) |->
             [id |-> data.items[k].id, img |-> data.items[k].id]]
    ELSE <<>>

\* C12: in the state right after the initial load is applied (the step
\* that ends loading), posts is the loaded collection (the fetched items,
\* or the empty sequence on failure) and currentPage is 1.
C12_LoadLeavesCursorAtOne ==
    [][(loading /\ ~loading') =>
          /\ posts' = loaded'
          /\ currentPage' = 1]_vars

\* the load has just been applied with more than one page of posts
C12_Witness ==
    /\ lastOp \in {"fetchFulfilled", "timer"}
    /\ ~loading
    /\ Len(posts) > perPage
    /\ posts = loaded
    /\ currentPage = 1

\* ---- C13
\* position of item x in sequence s
IndexIn(x, s) == CHOOSE i \in 1..Len(s) : s[i] = x

\* s is a subsequence of t (t without duplicates): the items of s are
\* items of t, each once, in the order they have in t
IsSubsequence(s, t) ==
    /\ \A k \in 1..Len(s) : \E i \in 1..Len(t) : t[i] = s[k]
    /\ \A j, k \in 1..Len(s) : j < k => IndexIn(s[j], t) < IndexIn(s[k], t)

\* C13: posts is always a subsequence of the loaded collection, without
\* duplicate ids; posts changes only by the load (once, ending loading) or
\* by a deletePost, which removes exactly one item.
C13_OnlyShrinks ==
    /\ [](/\ IsSubsequence(posts, loaded)
          /\ \A j, k \in 1..Len(posts) : j # k => posts[j].id # posts[k].id)
    /\ [][posts' # posts =>
             \/ loading /\ ~loading' /\ posts = <<>>
             \/ /\ lastOp' = "deletePost"
                /\ Len(posts') = Len(posts) - 1]_vars

\* two posts have been deleted from a loaded collection of two pages
C13_Witness ==
    /\ lastOp = "deletePost"
    /\ Len(loaded) > perPage
    /\ Len(posts) = Len(loaded) - 2

\* ---- C14
\* the collection of the scenario: the 18 posts the request asks for
Eighteen == withImages(Response(Limit).items)

\* C14: in every state totalPages = max(1, ceil(len(posts)/6)) and the
\* page buttons are 1..totalPages in increasing order; an empty collection
\* has one page and one button; 18 posts give 3 pages, the buttons 1, 2, 3,
\* and page 1 shows the first six posts.
C14_TotalPagesAndButtons ==
    /\ totalPages(posts) = ExpectedTotalPages(Len(posts))
    /\ Len(pages(posts)) = ExpectedTotalPages(Len(posts))
    /\ \A k \in 1..Len(pages(posts)) : pages(posts)[k] = k
    /\ posts = <<>> => (totalPages(posts) = 1 /\ pages(posts) = <<1>>)
    /\ totalPages(Eighteen) = 3
    /\ pages(Eighteen) = <<1, 2, 3>>
    /\ slice(Eighteen, 1) = SubSeq(Eighteen, 1, 6)

\* the grid shows 13 posts: three page buttons, the last page holds one
C14_Witness ==
    /\ rendered
    /\ Len(posts) = 2 * perPage + 1
    /\ pages(posts) = <<1, 2, 3>>

\* ---- C15
\* C15: for every collection and every stored cursor >= 1, also one beyond
\* totalPages, the displayed page is min(cursor, totalPages), lies in
\* [1, totalPages], and the slice is exactly the items of that page (the
\* last page when the cursor is stale).
C15_StaleCursor ==
    currentPage >= 1 =>
        LET T == ExpectedTotalPages(Len(posts))
            e == IF currentPage < T THEN currentPage ELSE T
            last == IF e * perPage < Len(posts) THEN e * perPage ELSE Len(posts)
        IN  /\ page(posts, currentPage) = e
            /\ 1 <= e /\ e <= T
            /\ slice(posts, currentPage) = SubSeq(posts, (e - 1) * perPage + 1, last)

\* the stored cursor is beyond the last page of a non-empty collection
C15_Witness ==
    /\ rendered
    /\ Len(posts) > perPage
    /\ currentPage > ExpectedTotalPages(Len(posts))
    /\ Len(slice(posts, currentPage)) > 0

\* ---- C16
\* C16: in every state the program reaches through the rendered controls,
\* the page PostsGrid displays equals the stored currentPage, and the
\* highlighted page button (p === currentPage) is a rendered one.
C16_ReclampRedundant ==
    /\ page(posts, currentPage) = currentPage
    /\ \E k \in 1..Len(pages(posts)) : pages(posts)[k] = currentPage

\* a deletion on page 2 of 2 emptied that page: stored and displayed page
\* are both 1
C16_Witness ==
    /\ rendered
    /\ lastOp = "deletePost"
    /\ prevPage = 2
    /\ currentPage = 1
    /\ Len(posts) = perPage
    /\ page(posts, currentPage) = 1

\* ---- C17
\* C17: in every state with loading = false, the visible slice is empty if
\* and only if the collection is empty.
C17_NoEmptyPage ==
    ~loading => (slice(posts, currentPage) = <<>> <=> posts = <<>>)

\* the last page was emptied by a deletion, posts remain and the slice
\* shown is not empty
C17_Witness ==
    /\ rendered
    /\ lastOp = "deletePost"
    /\ prevPage > ExpectedTotalPages(Len(posts))
    /\ posts # <<>>
    /\ slice(posts, currentPage) # <<>>

\* ---- C18
\* C18: if the provider stays mounted, then (the fetch settling and the
\* timer firing eventually) loading eventually becomes false; and once
\* loading is false it is false in every later state.
C18_LoadingTerminates ==
    /\ ([]mounted => <>(~loading))
    /\ [][~loading => ~loading']_vars

\* the load has ended on a mounted provider after both the fetch and the
\* timer completed
C18_Witness ==
    /\ mounted
    /\ ~loading
    /\ pc = "done"
    /\ timerFired
    /\ fetchState # "pending"

\* ---- C19
\* C19: while loading is true, posts is empty and currentPage is 1; a
\* deletePost, setCurrentPage, goPrev or goNext step is taken only in a
\* state where loading is false (the load has been applied).
C19_NoMutationWhileLoading ==
    /\ [](loading => (posts = <<>> /\ currentPage = 1))
    /\ [][lastOp' \in {"deletePost", "setCurrentPage", "goPrev", "goNext"}
            => (~loading /\ ~loading' /\ pc = "done")]_vars

\* posts have arrived but the timer has not fired: still loading, with the
\* collection empty and the cursor at 1
C19_Witness ==
    /\ mounted
    /\ loading
    /\ fetchState = "fulfilled"
    /\ Len(data.items) > perPage
    /\ ~timerFired
    /\ posts = <<>>
    /\ currentPage = 1

====
